---- MODULE Spec2Model ----
(***************************************************************************)
(* github-api-proxy: the credential-balancing request pipeline.            *)
(*                                                                         *)
(* Strings are sequences of one-character strings.  Two revisions of       *)
(* main() are present in the sources (src/main.go and                      *)
(* src/unnamed/part_000); the variable build selects the revision.         *)
(***************************************************************************)
EXTENDS Integers, Sequences, FiniteSets, TLC

\* ------------------------------------------------------------------------
\* Bounds
\* ------------------------------------------------------------------------
MaxSpecLen == 4      \* longest credential specification explored
MaxPrior == 1        \* members already in the balancing set before a call
MaxObs == 2          \* quota observations delivered per run

\* ------------------------------------------------------------------------
\* Strings
\* ------------------------------------------------------------------------
Range(s) == {s[i] : i \in 1..Len(s)}

SeqsUpTo(S, n) == UNION {[1..k -> S] : k \in 0..n}

\* strings.Index(s, sep) for a one-character sep; 0 when absent.
IndexLast(s, c) ==
    IF c \in Range(s) THEN CHOOSE i \in 1..Len(s) : s[i] = c /\ \A j \in (i+1)..Len(s) : s[j] # c
    ELSE 0

Index(s, c) ==
    IF c \in Range(s) THEN CHOOSE i \in 1..Len(s) : s[i] = c /\ \A j \in 1..(i-1) : s[j] # c
    ELSE 0

\* strings.Cut(s, sep): before, after, found.
CutAt(s, i) ==
    IF i = 0 THEN [before |-> s, after |-> <<>>, found |-> FALSE]
    ELSE [before |-> SubSeq(s, 1, i-1), after |-> SubSeq(s, i+1, Len(s)), found |-> TRUE]

CutLast(s, c) == CutAt(s, IndexLast(s, c))

Cut(s, c) == CutAt(s, Index(s, c))

\* ------------------------------------------------------------------------
\* sha256.Sum256 followed by base64.StdEncoding.EncodeToString
\* ------------------------------------------------------------------------
DigestLen == 44      \* base64 of 32 bytes: 43 digits and one '=' pad

B64 == << "A","B","C","D","E","F","G","H","I","J","K","L","M","N","O","P",
          "Q","R","S","T","U","V","W","X","Y","Z","a","b","c","d","e","f",
          "g","h","i","j","k","l","m","n","o","p","q","r","s","t","u","v",
          "w","x","y","z","0","1","2","3","4","5","6","7","8","9","+","/" >>

CharCode(c) == IF c = "a" THEN 1 ELSE IF c = "b" THEN 2 ELSE IF c = ":" THEN 3 ELSE 4

RECURSIVE Sum256(_)
\* A collision-free stand-in for the digest on the explored strings: the
\* positional value of the string in base 5.
Sum256(s) == IF s = <<>> THEN 0 ELSE CharCode(s[1]) + 5 * Sum256(Tail(s))

RECURSIVE Digits(_, _)
Digits(n, k) == IF k = 0 THEN <<>> ELSE Digits(n \div 64, k - 1) \o <<B64[(n % 64) + 1]>>

EncodeToString(n) == Digits(n, DigestLen - 1) \o <<"=">>

hashToken(token) == EncodeToString(Sum256(token))

\* ------------------------------------------------------------------------
\* Credential transports (ghratelimit.Transport values of the balancing set)
\* ------------------------------------------------------------------------
\* One member: the ghratelimit.Transport, flattened.
\*   kind     which constructor built it
\*   identity the label captured by its Limits.Notify closure
\*   auth     the fields handed to the authentication layer
\*   base     the transport the authentication layer wraps
Member(kind, identity, auth, base) ==
    [kind |-> kind, identity |-> identity, auth |-> auth, base |-> base]

Fatal == [fatal |-> TRUE, balancing |-> <<>>]
Ok(balancing) == [fatal |-> FALSE, balancing |-> balancing]

configureOauthTransportNoCheck(params, transport, balancing, ctorOK) ==
    LET c == Cut(params, ":") IN
    Ok(Append(balancing, Member("oauth", c.before, <<c.before, c.after>>, transport)))

configureOauthTransport(params, transport, balancing, ctorOK) ==
    LET c == Cut(params, ":") IN
    IF ~c.found THEN Fatal
    ELSE IF ~ctorOK THEN Fatal
    ELSE Ok(Append(balancing, Member("oauth", c.before, <<c.before, c.after>>, transport)))

configureGitHubAppKeyCut(appParams, transport, balancing, ctorOK) ==
    LET c1 == Cut(appParams, ":")
        c2 == Cut(c1.after, ":") IN
    IF ~c1.found THEN Fatal
    ELSE IF ~c2.found THEN Fatal
    ELSE IF ~ctorOK THEN Fatal
    ELSE Ok(Append(balancing,
            Member("app", c1.before \o <<":">> \o c2.before,
                   <<c1.before, c2.before, Cut(c2.after, ":").before>>, transport)))

configureGitHubApp(appParams, transport, balancing, ctorOK) ==
    LET c1 == Cut(appParams, ":")
        c2 == Cut(c1.after, ":") IN
    IF ~c1.found THEN Fatal
    ELSE IF ~c2.found THEN Fatal
    ELSE IF ~ctorOK THEN Fatal
    ELSE Ok(Append(balancing,
            Member("app", c1.before \o <<":">> \o c2.before,
                   <<c1.before, c2.before, c2.after>>, transport)))

configurePatTransportLastColon(token, transport, balancing) ==
    LET c == CutLast(token, ":") IN
    IF ~c.found
    THEN Ok(Append(balancing, Member("pat", hashToken(c.before), <<c.before>>, transport)))
    ELSE Ok(Append(balancing, Member("pat", c.before, <<c.after>>, transport)))

configurePatTransport(token, transport, balancing) ==
    LET c == Cut(token, ":") IN
    IF ~c.found
    THEN Ok(Append(balancing, Member("pat", hashToken(c.before), <<c.before>>, transport)))
    ELSE Ok(Append(balancing, Member("pat", c.before, <<c.after>>, transport)))

\* The pre-refactoring token loop of src/main.go: no identifier syntax.
mainGoToken(token, transport, balancing) ==
    Ok(Append(balancing, Member("pat", hashToken(token), <<token>>, transport)))

\* ------------------------------------------------------------------------
\* Prometheus gauges and the Limits.Notify closures
\* ------------------------------------------------------------------------
Resources == {"core", "search"}
Rates == {[remaining |-> 0, reset |-> 2], [remaining |-> 5, reset |-> 1]}

\* GaugeVec.WithLabelValues(id, resource).Set(v)
GaugeSet(g, id, resource, v) ==
    [k \in (DOMAIN g) \cup {<<id, resource>>} |->
        IF k = <<id, resource>> THEN v ELSE g[k]]

\* first statement of a Notify closure
NotifyRemainingSwapped(g, m, resource, rate) == GaugeSet(g, m.identity, resource, rate.reset)

NotifyRemaining(g, m, resource, rate) == GaugeSet(g, m.identity, resource, rate.remaining)

\* second statement of a Notify closure
NotifyReset(g, m, resource, rate) == GaugeSet(g, m.identity, resource, rate.reset)

\* ------------------------------------------------------------------------
\* State
\* ------------------------------------------------------------------------
VARIABLES
    balancing,            \* ghratelimit.BalancingTransport being built / in use
    specs,                \* history: the specification each member was built from
    RateLimitRemaining,   \* gauge github_rate_limit_remaining, by <<client_id, resource>>
    RateLimitReset,       \* gauge github_rate_limit_reset, by <<client_id, resource>>
    notif,                \* per task: the Notify call it is executing, or NoCall
    obs,                  \* number of quota observations delivered so far
    cred                  \* harness of the configure* functions (main_test.go)

credVars == <<balancing, specs, RateLimitRemaining, RateLimitReset, notif, obs, cred>>

MaxReq == 1
Tasks == 0..MaxReq        \* 0 is the poll goroutine, 1..MaxReq are client requests

NoCall == [step |-> 0]
NoGauge == [k \in {} |-> 0]

\* The transport every credential wraps, outermost stage first: the caching
\* transport over LoggingTransport over http.DefaultTransport.
BaseStackUncached == <<"Logging", "Default">>

BaseStack == <<"Caching", "Logging", "Default">>

\* Deliver one observation to member idx's Notify closure on task t.
BeginNotify(t, idx, resource, rate) ==
    /\ notif[t] = NoCall
    /\ idx \in 1..Len(balancing)
    /\ notif' = [notif EXCEPT ![t] =
                    [step |-> 1, idx |-> idx, resource |-> resource, rate |-> rate]]

StepNotifyRemaining(t) ==
    /\ notif[t].step = 1
    /\ RateLimitRemaining' = NotifyRemaining(RateLimitRemaining, balancing[notif[t].idx],
                                             notif[t].resource, notif[t].rate)
    /\ notif' = [notif EXCEPT ![t].step = 2]
    /\ UNCHANGED <<RateLimitReset, balancing, specs, obs>>

StepNotifyReset(t) ==
    /\ notif[t].step = 2
    /\ RateLimitReset' = NotifyReset(RateLimitReset, balancing[notif[t].idx],
                                     notif[t].resource, notif[t].rate)
    /\ notif' = [notif EXCEPT ![t] = NoCall]
    /\ UNCHANGED <<RateLimitRemaining, balancing, specs, obs>>

\* ------------------------------------------------------------------------
\* The configure* functions called as main_test.go calls them
\* ------------------------------------------------------------------------
SpecChars == {"a", "b", ":"}
SpecStrings == SeqsUpTo(SpecChars, MaxSpecLen)
Kinds == {"oauth", "app", "pat"}

Configure(kind, params, transport, bal, ctorOK) ==
    IF kind = "oauth" THEN configureOauthTransport(params, transport, bal, ctorOK)
    ELSE IF kind = "app" THEN configureGitHubApp(params, transport, bal, ctorOK)
    ELSE configurePatTransport(params, transport, bal)

\* Specifications the earlier members of a balancing set were built from.
PriorSpecs == {[kind |-> "oauth", params |-> <<"a", ":", "b">>],
               [kind |-> "pat", params |-> <<"b">>]}

RECURSIVE BuildAll(_, _)
BuildAll(ss, transport) ==
    IF ss = <<>> THEN <<>>
    ELSE LET front == SubSeq(ss, 1, Len(ss) - 1)
             last == ss[Len(ss)]
         IN Configure(last.kind, last.params, transport, BuildAll(front, transport), TRUE).balancing

CredInit ==
    /\ specs \in SeqsUpTo(PriorSpecs, MaxPrior)
    /\ balancing = BuildAll(specs, BaseStack)
    /\ RateLimitRemaining = NoGauge
    /\ RateLimitReset = NoGauge
    /\ notif = [t \in Tasks |-> NoCall]
    /\ obs = 0
    /\ \E k \in Kinds, ps \in SpecStrings, b \in {BaseStack, <<"Stub">>} :
          cred = [pc |-> "call", kind |-> k, params |-> ps, prior |-> balancing,
                  base |-> b]

\* One call of configureOauthTransport / configureGitHubApp / configurePatTransport.
CredCall ==
    /\ cred.pc = "call"
    /\ \E ctorOK \in BOOLEAN :
          LET r == Configure(cred.kind, cred.params, cred.base, balancing, ctorOK) IN
          IF r.fatal
          THEN /\ cred' = [cred EXCEPT !.pc = "fatal"]
               /\ UNCHANGED <<balancing, specs>>
          ELSE /\ cred' = [cred EXCEPT !.pc = "returned"]
               /\ balancing' = r.balancing
               /\ specs' = Append(specs, [kind |-> cred.kind, params |-> cred.params])
    /\ UNCHANGED <<RateLimitRemaining, RateLimitReset, notif, obs>>

\* ------------------------------------------------------------------------
\* The Notify closures called on a configured balancing set, by the poll
\* goroutine and by request handlers
\* ------------------------------------------------------------------------
\* One specification of each kind; a balancing set holds each at most once.
NotifySpecs == {[kind |-> "oauth", params |-> <<"a", ":", "b">>],
                [kind |-> "app", params |-> <<"a", ":", "b", ":", "a">>],
                [kind |-> "pat", params |-> <<"b">>]}

NotifyInit ==
    /\ specs \in {q \in SeqsUpTo(NotifySpecs, MaxPrior + 1) :
                     q # <<>> /\ \A i, j \in 1..Len(q) : q[i] = q[j] => i = j}
    /\ balancing = BuildAll(specs, BaseStack)
    /\ RateLimitRemaining = NoGauge
    /\ RateLimitReset = NoGauge
    /\ notif = [t \in Tasks |-> NoCall]
    /\ obs = 0
    /\ cred = [pc |-> "off"]

\* transport.Limits.Notify(resp, resource, rate) is entered on task t.
NotifyCall(t) ==
    /\ obs < MaxObs
    /\ obs' = obs + 1
    /\ \E idx \in 1..Len(balancing), resource \in Resources, rate \in Rates :
          BeginNotify(t, idx, resource, rate)
    /\ UNCHANGED <<balancing, specs, RateLimitRemaining, RateLimitReset, cred>>

NotifyStepRemaining(t) == StepNotifyRemaining(t) /\ UNCHANGED cred

NotifyStepReset(t) == StepNotifyReset(t) /\ UNCHANGED cred

\* ------------------------------------------------------------------------
\* LoggingTransport.RoundTrip (log.go)
\* ------------------------------------------------------------------------
Nil == "nil"                 \* a nil error, an absent label
NilResp == [nil |-> TRUE]    \* a nil *http.Response
NoResult == [panic |-> FALSE, calls |-> 0]
Itoa(n) == IF n = 200 THEN "200" ELSE IF n = 404 THEN "404" ELSE "0"

\* The result of one call.  panic: the call did not return (nil pointer
\* dereference); calls: how often Base.RoundTrip was invoked; latency: the
\* status label observed on the Latency summary; event: the log event fired.
NoEvent == [level |-> "none", fields |-> {}]

Result(panic, resp, err, latency, event) ==
    [panic |-> panic, resp |-> resp, err |-> err, calls |-> 1,
     latency |-> latency, event |-> event]

RequestFields(req) ==
    {"method", "url"}
        \cup (IF req.remoteAddr # "" THEN {"remote_addr"} ELSE {})
        \cup (IF req.userAgent # "" THEN {"user_agent"} ELSE {})
        \cup (IF req.authorization # "" THEN {"hashed_token"} ELSE {})

\* strconv.ParseUint(remaining, 10, 64) succeeds on decimal digits only.
ParseUintOK(h) == h \in {"0", "42"}

ResponseFields(resp) ==
    IF resp = NilResp THEN {}
    ELSE {"status"}
        \cup (IF resp.contentLength > 0 THEN {"size"} ELSE {})
        \cup (IF resp.requestID # "" THEN {"request_id"} ELSE {})
        \cup (IF resp.remaining # "" /\ ParseUintOK(resp.remaining)
              THEN {"ratelimit_remaining"} ELSE {})
        \cup (IF resp.resource # "" THEN {"ratelimit_resource"} ELSE {})

LogEvent(req, resp, err) ==
    [level |-> IF err # Nil THEN "error" ELSE "info",
     fields |-> {"duration"} \cup (IF err # Nil THEN {"error"} ELSE {})
                   \cup RequestFields(req) \cup ResponseFields(resp)]

\* URL paths are sequences of tokens: "/" and path segments.
RateLimitPath == <<"/", "rate_limit">>
UserPath == <<"/", "user">>

RoundTrip(req, base) ==
    \* log.go:40 reads resp.StatusCode before any nil check
    IF base.resp = NilResp THEN Result(TRUE, NilResp, Nil, Nil, NoEvent)
    ELSE IF req.path = RateLimitPath
    THEN Result(FALSE, base.resp, base.err, Itoa(base.resp.status), NoEvent)
    ELSE Result(FALSE, base.resp, Nil, Itoa(base.resp.status),
                LogEvent(req, base.resp, base.err))

VARIABLE lg               \* harness of LoggingTransport.RoundTrip

Requests ==
    [path : {RateLimitPath, UserPath}, remoteAddr : {"", "10.0.0.1"},
     userAgent : {"", "curl"}, authorization : {"", "Bearer t"}]

Responses ==
    [status : {200, 404}, contentLength : {0, 7}, requestID : {"", "R1"},
     remaining : {"", "42", "x"}, resource : {"", "core"}]

\* What a RoundTripper may hand back: http.Transport gives (resp, nil) or
\* (nil, err); the interface type also admits the other two shapes.
BaseResults ==
    [resp : Responses \cup {NilResp}, err : {Nil, "dial tcp: connection refused"}]

LogInit == \E req \in Requests, base \in BaseResults :
    lg = [pc |-> "call", req |-> req, base |-> base, out |-> NoResult]

LogCall ==
    /\ lg.pc = "call"
    /\ lg' = [lg EXCEPT !.pc = "done", !.out = RoundTrip(lg.req, lg.base)]

\* ------------------------------------------------------------------------
\* ReverseProxy.ModifyResponse: the Link rewrite
\* ------------------------------------------------------------------------
\* URLs are sequences of tokens; a token stands for a fixed piece of text.
Upstream == "https://upstream.example"
LinkChars == {Upstream, "/", "resource", "?page="}
MaxLinkLen == 5

HasPrefixAt(s, old, i) ==
    /\ i + Len(old) - 1 <= Len(s)
    /\ \A j \in 1..Len(old) : s[i + j - 1] = old[j]

Contains(s, old) == \E i \in 1..(Len(s) + 1) : HasPrefixAt(s, old, i)

RECURSIVE ReplaceFrom(_, _, _, _)
ReplaceFrom(s, old, new, i) ==
    IF i > Len(s) THEN <<>>
    ELSE IF HasPrefixAt(s, old, i) THEN new \o ReplaceFrom(s, old, new, i + Len(old))
    ELSE <<s[i]>> \o ReplaceFrom(s, old, new, i + 1)

\* strings.ReplaceAll(s, old, new) for a non-empty old: leftmost,
\* non-overlapping occurrences.
ReplaceAll(s, old, new) == ReplaceFrom(s, old, new, 1)

\* proto + "://" + host, as one token
Origin(proto, host) ==
    IF proto = "https"
    THEN (IF host = "proxy.example" THEN "https://proxy.example" ELSE "https://upstream.example")
    ELSE (IF host = "proxy.example" THEN "http://proxy.example" ELSE "http://upstream.example")

\* http.Header.Get: the first value of the key, "" when there is none.
HeaderGet(lines) == IF lines = <<>> THEN <<>> ELSE lines[1]

\* A response header: the values of Link (one per header line) and Location.
ModifyResponse(hdr, proxyURL, proto, host) ==
    LET link == HeaderGet(hdr.link) IN
    IF link # <<>>
    THEN [hdr EXCEPT !.link = <<ReplaceAll(link, proxyURL, <<Origin(proto, host), "/">>)>>]
    ELSE hdr

VARIABLE lk               \* harness of ModifyResponse

\* --url values: bare host, host with trailing slash, host with a path
ProxyURLs == {<<Upstream>>, <<Upstream, "/">>, <<Upstream, "/", "resource", "/">>}

LinkLines ==
    {<<>>} \cup {<<l>> : l \in SeqsUpTo(LinkChars, MaxLinkLen)}
           \cup {<<l, <<Upstream, "/", "resource">>>> :
                     l \in {<<"/", "resource">>, <<Upstream, "/", "?page=">>}}

Locations == {<<>>, <<Upstream, "/", "resource">>}

LinkInit ==
    \E link \in LinkLines, loc \in Locations, u \in ProxyURLs,
       proto \in {"http", "https"}, host \in {"proxy.example", "upstream.example"} :
        lk = [pc |-> "response", proxyURL |-> u, proto |-> proto, host |-> host,
              orig |-> [link |-> link, location |-> loc],
              hdr |-> [link |-> link, location |-> loc],
              once |-> [link |-> link, location |-> loc]]

\* ModifyResponse runs on the upstream's response.
LinkModify ==
    /\ lk.pc = "response"
    /\ LET h == ModifyResponse(lk.hdr, lk.proxyURL, lk.proto, lk.host) IN
       lk' = [lk EXCEPT !.pc = "once", !.hdr = h, !.once = h]

\* The rewrite applied to its own output.
LinkModifyAgain ==
    /\ lk.pc = "once"
    /\ lk' = [lk EXCEPT !.pc = "twice",
                        !.hdr = ModifyResponse(lk.hdr, lk.proxyURL, lk.proto, lk.host)]

\* ------------------------------------------------------------------------
\* http.ServeMux, http.StripPrefix and ProxyRequest.SetURL
\* ------------------------------------------------------------------------
MaxPathLen == 3      \* longest client path explored, in tokens after the prefix

AliasPrefix == <<"/", "api/v3", "/">>      \* the pattern "/api/v3/"
MetricsPath == <<"/", "metrics">>          \* the pattern "/metrics"

HasEmptySegment(path) == \E k \in 1..(Len(path) - 1) : path[k] = "/" /\ path[k + 1] = "/"

\* ServeMux with the patterns "/", "/metrics" and "/api/v3/": a path that is
\* not clean, and the subtree root without its trailing slash, are answered
\* with a redirect.
MuxWithoutMetrics(path) ==
    IF HasEmptySegment(path) THEN "redirect"
    ELSE IF HasPrefixAt(path, AliasPrefix, 1) THEN "strip"
    ELSE IF path = <<"/", "api/v3">> THEN "redirect"
    ELSE "proxy"

Mux(path) ==
    IF HasEmptySegment(path) THEN "redirect"
    ELSE IF path = MetricsPath THEN "metrics"
    ELSE IF HasPrefixAt(path, AliasPrefix, 1) THEN "strip"
    ELSE IF path = <<"/", "api/v3">> THEN "redirect"
    ELSE "proxy"

\* http.StripPrefix: the path without the prefix it starts with.
StripPrefix(path, prefix) == SubSeq(path, Len(prefix) + 1, Len(path))

\* singleJoiningSlash of net/http/httputil
SingleJoiningSlashConcat(a, b) == a \o b

SingleJoiningSlash(a, b) ==
    LET aslash == a # <<>> /\ a[Len(a)] = "/"
        bslash == b # <<>> /\ b[1] = "/"
    IN IF aslash /\ bslash THEN a \o Tail(b)
       ELSE IF ~aslash /\ ~bslash THEN a \o <<"/">> \o b
       ELSE a \o b

NoURL == [host |-> "", path |-> <<>>, query |-> ""]

\* pr.SetURL(proxyURL): the target's host, the joined path, the request's query.
SetURL(base, path, query) ==
    [host |-> Upstream, path |-> SingleJoiningSlash(base, path), query |-> query]

\* What the server does with a client request: the handler that answers it
\* and, when that is the reverse proxy, the method and URL sent upstream.
Forward(base, req) ==
    LET h == Mux(req.path) IN
    IF h = "proxy"
    THEN [handler |-> "proxy", method |-> req.method, url |-> SetURL(base, req.path, req.query)]
    ELSE IF h = "strip"
    THEN [handler |-> "proxy", method |-> req.method,
          url |-> SetURL(base, StripPrefix(req.path, AliasPrefix), req.query)]
    ELSE [handler |-> h, method |-> req.method, url |-> NoURL]

VARIABLE mx               \* harness of the router: one path under both prefixes

NotServed == [handler |-> "none"]

PathTokens == {"/", "user", "metrics", "api/v3"}
BasePaths == {<<>>, <<"/">>, <<"/", "ghe", "/">>}     \* path of --url

MuxInit ==
    \E p \in SeqsUpTo(PathTokens, MaxPathLen), base \in BasePaths,
       method \in {"GET", "POST"}, query \in {"", "page=2"} :
        mx = [pc |-> "requests", p |-> p, base |-> base, method |-> method,
              query |-> query, root |-> NotServed, alias |-> NotServed]

\* the request for /p is served
MuxRoot ==
    /\ mx.pc = "requests" /\ mx.root = NotServed
    /\ mx' = [mx EXCEPT !.root = Forward(mx.base,
                  [method |-> mx.method, path |-> <<"/">> \o mx.p, query |-> mx.query])]

\* the request for /api/v3/p is served
MuxAlias ==
    /\ mx.pc = "requests" /\ mx.alias = NotServed
    /\ mx' = [mx EXCEPT !.alias = Forward(mx.base,
                  [method |-> mx.method, path |-> AliasPrefix \o mx.p, query |-> mx.query])]

\* ------------------------------------------------------------------------
\* main(): startup, serving, shutdown
\* ------------------------------------------------------------------------
VARIABLE rt               \* harness of the quota-aware routing

MaxPerKind == 1      \* values given per --auth-oauth / --auth-app / --auth-token

VARIABLES
    build,       \* which revision of main(): "main_go" or "part_000"
    pc,          \* position of the main goroutine
    cfg,         \* parsed flags: number of credentials per kind, --rps / --rph
    limit,       \* rate handed to the limiter, 0 when none is installed
    transport,   \* the RoundTripper main() has built so far, outermost stage first
    listening,   \* the listener is open
    ctxDone,     \* the signal.NotifyContext context is cancelled
    exit,        \* exit status, -1 while the process runs
    db,          \* bbolt / pebble handle: "none", "open", "closed"
    task,        \* per task: state of the poll goroutine (0) or client request
    sent,        \* history: requests that reached the upstream
    signalled,   \* history: client requests in flight, and listener state, at the signal
    lastInput    \* history: the configuration value consumed last

mainVars == <<build, pc, cfg, limit, transport, listening, ctxDone, exit, db,
              task, sent, signalled, lastInput>>

sharedVars == <<balancing, specs, RateLimitRemaining, RateLimitReset, notif, obs>>

vars == <<mainVars, sharedVars, cred, lg, lk, rt, mx>>

Builds == {"main_go", "part_000"}

StorageKinds(b) ==
    IF b = "main_go" THEN {"memory", "bbolt", "s3"}
    ELSE {"memory", "pebble", "bbolt", "s3", "redis"}

MainInputs(kind) ==
    IF kind = "oauth" THEN {<<"a", ":", "b">>, <<"a">>}
    ELSE IF kind = "app" THEN {<<"a", ":", "b", ":", "a">>, <<"a", ":", "b">>, <<"a">>}
    ELSE {<<"b">>, <<"a", ":", "b">>}

Count(kind) == Cardinality({i \in 1..Len(balancing) : balancing[i].kind = kind})

Wanted(kind) ==
    IF kind = "oauth" THEN cfg.nOauth ELSE IF kind = "app" THEN cfg.nApp ELSE cfg.nToken

NumCreds == cfg.nOauth + cfg.nApp + cfg.nToken

NoInput == [what |-> "none", params |-> <<>>, ok |-> TRUE]
NoTask == [st |-> "none", client |-> <<>>, path |-> <<>>, creds |-> <<>>, err |-> Nil]

Init ==
    /\ build \in Builds
    /\ pc = "start"
    /\ cfg \in [nOauth : 0..MaxPerKind, nApp : 0..MaxPerKind, nToken : 0..MaxPerKind,
                rate : {0, 2}]
    /\ limit = cfg.rate
    /\ transport = <<>>
    /\ listening = FALSE
    /\ ctxDone = FALSE
    /\ exit = -1
    /\ db = "none"
    /\ task = [t \in Tasks |-> NoTask]
    /\ sent = {}
    /\ signalled = [seen |-> FALSE, inflight |-> {}]
    /\ lastInput = NoInput
    /\ balancing = <<>>
    /\ specs = <<>>
    /\ RateLimitRemaining = NoGauge
    /\ RateLimitReset = NoGauge
    /\ notif = [t \in Tasks |-> NoCall]
    /\ obs = 0
    /\ cred = [pc |-> "off"]
    /\ lg = [pc |-> "off"]
    /\ lk = [pc |-> "off"]
    /\ rt = [pc |-> "off"]
    /\ mx = [pc |-> "off"]

Running == exit = -1

\* log.Fatal(): os.Exit(1) at once, deferred calls do not run.
Die(code) == exit' = code /\ pc' = "exited"

\* url.Parse(*apiURL)
ParseURL ==
    /\ Running /\ pc = "start"
    /\ \E ok \in BOOLEAN :
        /\ lastInput' = [what |-> "url", params |-> <<>>, ok |-> ok]
        /\ IF ok THEN pc' = "storage" /\ exit' = exit ELSE Die(1)
    /\ UNCHANGED <<build, cfg, limit, transport, listening, ctxDone, db, task, sent,
                   signalled, sharedVars, cred, lg, lk, rt, mx>>

\* storage backend selection, then LoggingTransport and the caching transport
OpenStorage ==
    /\ Running /\ pc = "storage"
    /\ \E kind \in StorageKinds(build), ok \in BOOLEAN :
        /\ (kind \in {"memory", "redis"}) => ok
        /\ lastInput' = [what |-> "storage", params |-> <<>>, ok |-> ok]
        /\ IF ok
           THEN /\ pc' = "creds" /\ exit' = exit
                /\ db' = IF kind \in {"bbolt", "pebble"} THEN "open" ELSE "none"
                /\ transport' = BaseStack
           ELSE Die(1) /\ UNCHANGED <<db, transport>>
    /\ UNCHANGED <<build, cfg, limit, listening, ctxDone, task, sent, signalled,
                   sharedVars, cred, lg, lk, rt, mx>>

\* main.go:134
MultiplyRPS(rps, nOauth, nApp, nToken) == rps * (nOauth + rps * nApp + rps * nToken)

\* the test guarding the credential block; without credentials part_000
\* installs the limiter here
BeginCreds ==
    /\ Running /\ pc = "creds"
    /\ IF NumCreds > 0
       THEN /\ pc' = "loops"
            /\ limit' = IF build = "main_go"
                        THEN MultiplyRPS(cfg.rate, cfg.nOauth, cfg.nApp, cfg.nToken)
                        ELSE limit
            /\ UNCHANGED transport
       ELSE /\ pc' = IF build = "main_go" THEN "rps" ELSE "proxy"
            /\ transport' = IF build = "part_000" /\ cfg.rate > 0
                            THEN <<"RateLimit">> \o transport ELSE transport
            /\ UNCHANGED limit
    /\ UNCHANGED <<build, cfg, listening, ctxDone, exit, db, task, sent, signalled,
                   lastInput, sharedVars, cred, lg, lk, rt, mx>>

\* The three loops run in this order.
NextKind ==
    IF Count("oauth") < Wanted("oauth") THEN "oauth"
    ELSE IF Count("app") < Wanted("app") THEN "app"
    ELSE IF Count("pat") < Wanted("pat") THEN "pat"
    ELSE "none"

ConfigureMain(b, kind, params, tr, bal, ctorOK) ==
    IF kind = "pat" /\ b = "main_go" THEN mainGoToken(params, tr, bal)
    ELSE Configure(kind, params, tr, bal, ctorOK)

\* one iteration of one of the credential loops
ConfigureNext ==
    /\ Running /\ pc = "loops" /\ NextKind # "none"
    /\ \E params \in MainInputs(NextKind), ctorOK \in BOOLEAN :
        LET r == ConfigureMain(build, NextKind, params, transport, balancing, ctorOK) IN
        /\ lastInput' = [what |-> NextKind, params |-> params,
                         ok |-> ctorOK \/ NextKind = "pat"]
        /\ IF r.fatal
           THEN Die(1) /\ UNCHANGED <<balancing, specs>>
           ELSE /\ balancing' = r.balancing
                /\ specs' = Append(specs, [kind |-> NextKind, params |-> params])
                /\ UNCHANGED <<pc, exit>>
    /\ UNCHANGED <<build, cfg, limit, transport, listening, ctxDone, db, task, sent,
                   signalled, RateLimitRemaining, RateLimitReset, notif, obs, cred, lg, lk, rt, mx>>

\* The transport main() holds after the credential block: part_000 assigns
\* the balancing set, main.go leaves the caching transport in place.
CredsWiring(b, tr) == IF b = "part_000" THEN <<"Balancing">> ELSE tr

\* go balancing.Poll(ctx, ...); part_000 then makes the balancing set the transport
StartPoll ==
    /\ Running /\ pc = "loops" /\ NextKind = "none"
    /\ task' = [task EXCEPT ![0].st = "idle"]
    /\ transport' = CredsWiring(build, transport)
    /\ pc' = IF build = "main_go" THEN "rps" ELSE "proxy"
    /\ UNCHANGED <<build, cfg, limit, listening, ctxDone, exit, db, sent, signalled,
                   lastInput, sharedVars, cred, lg, lk, rt, mx>>

\* main.go:206-212
WrapRPS ==
    /\ Running /\ pc = "rps"
    /\ transport' = IF limit > 0 THEN <<"RPS">> \o transport ELSE transport
    /\ pc' = "proxy"
    /\ UNCHANGED <<build, cfg, limit, listening, ctxDone, exit, db, task, sent,
                   signalled, lastInput, sharedVars, cred, lg, lk, rt, mx>>

\* ReverseProxy, ServeMux, and the goroutine running ListenAndServe
StartServer ==
    /\ Running /\ pc = "proxy"
    /\ \E ok \in BOOLEAN :
        IF ok THEN listening' = TRUE /\ pc' = "wait" /\ exit' = exit
        ELSE Die(1) /\ UNCHANGED listening
    /\ UNCHANGED <<build, cfg, limit, transport, ctxDone, db, task, sent, signalled,
                   lastInput, sharedVars, cred, lg, lk, rt, mx>>

InFlight == {t \in 1..MaxReq : task[t].st \in {"upstream", "notify"}}

\* os.Interrupt cancels ctx
Interrupt ==
    /\ Running /\ ~ctxDone
    /\ ctxDone' = TRUE
    /\ signalled' = [seen |-> TRUE, inflight |-> InFlight]
    /\ UNCHANGED <<build, pc, cfg, limit, transport, listening, exit, db, task, sent,
                   lastInput, sharedVars, cred, lg, lk, rt, mx>>

\* <-ctx.Done(); server.Shutdown(ctx) with the cancelled ctx: the listener is
\* closed, then Shutdown returns nil if no connection is active and ctx.Err()
\* otherwise; a non-nil error is fatal, a nil one lets main return and the
\* deferred Close run.
Shutdown ==
    /\ Running /\ pc = "wait" /\ ctxDone
    /\ listening' = FALSE
    /\ IF InFlight = {}
       THEN /\ exit' = 0 /\ pc' = "exited"
            /\ db' = IF db = "open" THEN "closed" ELSE db
       ELSE Die(1) /\ UNCHANGED db
    /\ UNCHANGED <<build, cfg, limit, transport, ctxDone, task, sent, signalled,
                   lastInput, sharedVars, cred, lg, lk, rt, mx>>

ClientPaths == {MetricsPath, UserPath, AliasPrefix \o <<"user">>}

\* The path sent upstream for a proxied client path, with the default --url
\* (path "/").
UpstreamPath(path) == Forward(<<"/">>, [method |-> "GET", path |-> path, query |-> ""]).url.path

Limiters(stack) == Cardinality({k \in 1..Len(stack) : stack[k] \in {"RPS", "RateLimit"}})

\* The stages a request passes from its source to the upstream: the
\* transport it is handed to and, when that is the balancing set, the
\* authentication layer of the selected member i and the transport it wraps.
Stages(src, tr, bal, i) ==
    <<src>> \o tr \o (IF i = 0 THEN <<>> ELSE <<"Credential">> \o bal[i].base)

\* A client request is accepted, routed by the mux and, unless it is for
\* /metrics, sent down the transport to the upstream.
Accept(t) ==
    /\ Running /\ listening /\ t \in 1..MaxReq /\ task[t].st = "none"
    /\ \E path \in ClientPaths :
        IF Mux(path) = "metrics"
        THEN /\ task' = [task EXCEPT ![t] =
                    [st |-> "metrics", client |-> path, path |-> <<>>, creds |-> <<>>,
                     err |-> Nil]]
             /\ UNCHANGED sent
        ELSE \E i \in (IF "Balancing" \in Range(transport) THEN 1..Len(balancing) ELSE {0}) :
             LET creds == IF i = 0 THEN <<>> ELSE <<i>> IN
             /\ task' = [task EXCEPT ![t] =
                    [st |-> "upstream", client |-> path, path |-> UpstreamPath(path),
                     creds |-> creds, err |-> Nil]]
             /\ sent' = sent \cup {[src |-> "proxy", client |-> path, path |-> UpstreamPath(path),
                                    creds |-> creds, takes |-> Limiters(transport),
                                    stages |-> Stages("Proxy", transport, balancing, i)]}
    /\ UNCHANGED <<build, pc, cfg, limit, transport, listening, ctxDone, exit, db,
                   signalled, lastInput, sharedVars, cred, lg, lk, rt, mx>>

\* ctx.Done() as the poll goroutine sees it: balancing.Poll is handed the
\* context of signal.NotifyContext.
PollDoneBackground(done) == FALSE

PollDone(done) == done

\* One probe of the poll goroutine: the members are probed in turn.
PollProbe ==
    /\ Running /\ task[0].st = "idle" /\ ~PollDone(ctxDone)
    /\ LET i == IF task[0].creds = <<>> THEN 1
                ELSE (task[0].creds[1] % Len(balancing)) + 1 IN
        /\ task' = [task EXCEPT ![0] =
                [st |-> "upstream", client |-> <<>>, path |-> RateLimitPath, creds |-> <<i>>,
                 err |-> Nil]]
        /\ sent' = sent \cup {[src |-> "poll", client |-> <<>>, path |-> RateLimitPath,
                               creds |-> <<i>>,
                               takes |-> Limiters(balancing[i].base),
                               stages |-> Stages("Poll", <<>>, balancing, i)]}
    /\ UNCHANGED <<build, pc, cfg, limit, transport, listening, ctxDone, exit, db,
                   signalled, lastInput, sharedVars, cred, lg, lk, rt, mx>>

\* The poll goroutine sees the cancelled ctx and returns.
PollExit ==
    /\ Running /\ task[0].st = "idle" /\ PollDone(ctxDone)
    /\ task' = [task EXCEPT ![0].st = "stopped"]
    /\ UNCHANGED <<build, pc, cfg, limit, transport, listening, ctxDone, exit, db,
                   sent, signalled, lastInput, sharedVars, cred, lg, lk, rt, mx>>

\* An API response with quota headers, and a response without them.
OkResponse == [status |-> 200, contentLength |-> 7, requestID |-> "R1",
               remaining |-> "42", resource |-> "core"]
PlainResponse == [status |-> 404, contentLength |-> 0, requestID |-> "",
                  remaining |-> "", resource |-> ""]

\* What http.DefaultTransport returns.
UpstreamResults == {[resp |-> OkResponse, err |-> Nil],
                    [resp |-> PlainResponse, err |-> Nil],
                    [resp |-> NilResp, err |-> "dial tcp: connection refused"]}

\* The rate ghratelimit.Transport reads from the quota headers.
RateOf(resp) == CHOOSE r \in Rates : r.remaining = (IF resp.remaining = "42" THEN 5 ELSE 0)

RequestOf(tk) ==
    [path |-> tk.path, remoteAddr |-> "10.0.0.1", userAgent |-> "curl",
     authorization |-> IF tk.creds = <<>> THEN "" ELSE "Bearer t"]

Rest(t) == IF t = 0 THEN "idle" ELSE "done"

\* The upstream answers (or the connection fails) and the result travels back
\* up the transport: LoggingTransport, the caching transport, the
\* authentication layer and, on a credential transport, the quota observation.
TaskReply(t) ==
    /\ Running /\ task[t].st = "upstream"
    /\ \E out \in UpstreamResults :
        LET r == RoundTrip(RequestOf(task[t]), out) IN
        IF r.panic
        THEN \* net/http recovers a panic of a handler; one in the poll
             \* goroutine ends the process
             /\ task' = [task EXCEPT ![t].st = IF t = 0 THEN "panicked" ELSE "aborted",
                                     ![t].err = out.err]
             /\ IF t = 0 THEN Die(2) ELSE UNCHANGED <<pc, exit>>
             /\ UNCHANGED <<notif, obs>>
        ELSE IF r.err # Nil
        THEN /\ task' = [task EXCEPT ![t].st = IF t = 0 THEN "idle" ELSE "badgateway",
                                     ![t].err = r.err]
             /\ UNCHANGED <<pc, exit, notif, obs>>
        ELSE IF task[t].creds # <<>> /\ out.resp.resource # ""
        THEN /\ BeginNotify(t, task[t].creds[1], out.resp.resource, RateOf(out.resp))
             /\ task' = [task EXCEPT ![t].st = "notify"]
             /\ UNCHANGED <<pc, exit, obs>>
        ELSE /\ task' = [task EXCEPT ![t].st = Rest(t)]
             /\ UNCHANGED <<pc, exit, notif, obs>>
    /\ UNCHANGED <<build, cfg, limit, transport, listening, ctxDone, db, sent, signalled,
                   lastInput, balancing, specs, RateLimitRemaining, RateLimitReset,
                   cred, lg, lk, rt, mx>>

\* Notify has returned: ModifyResponse runs and the response is written, or
\* the poll goroutine goes back to waiting for its ticker.
TaskFinish(t) ==
    /\ Running /\ task[t].st = "notify" /\ notif[t] = NoCall
    /\ task' = [task EXCEPT ![t].st = Rest(t)]
    /\ UNCHANGED <<build, pc, cfg, limit, transport, listening, ctxDone, exit, db,
                   sent, signalled, lastInput, sharedVars, cred, lg, lk, rt, mx>>

TaskNotifyRemaining(t) ==
    /\ Running /\ task[t].st = "notify" /\ StepNotifyRemaining(t)
    /\ UNCHANGED <<mainVars, cred, lg, lk, rt, mx>>

TaskNotifyReset(t) ==
    /\ Running /\ task[t].st = "notify" /\ StepNotifyReset(t)
    /\ UNCHANGED <<mainVars, cred, lg, lk, rt, mx>>

Next ==
    \/ ParseURL \/ OpenStorage \/ BeginCreds \/ ConfigureNext \/ StartPoll
    \/ WrapRPS \/ StartServer \/ Interrupt \/ Shutdown \/ PollProbe \/ PollExit
    \/ \E t \in Tasks : \/ Accept(t) \/ TaskReply(t) \/ TaskFinish(t)
                        \/ TaskNotifyRemaining(t) \/ TaskNotifyReset(t)

Spec == Init /\ [][Next]_vars

\* The poll goroutine is scheduled whenever it can run, and its request,
\* made with ctx, returns.
PollFairness ==
    /\ WF_vars(PollExit) /\ WF_vars(TaskReply(0)) /\ WF_vars(TaskFinish(0))
    /\ WF_vars(TaskNotifyRemaining(0)) /\ WF_vars(TaskNotifyReset(0))

SpecLive == Spec /\ PollFairness

\* ------------------------------------------------------------------------
\* Routing of client requests over a configured balancing set
\* ------------------------------------------------------------------------
Unknown == [known |-> FALSE]
Now == 1                  \* the instant of routing, on the scale of Rates' reset

Exhausted(q) == q # Unknown /\ q.remaining = 0 /\ q.reset > Now
Positive(q) == q # Unknown /\ q.remaining > 0

\* The selection policy of the balancing router (section 4.3): by remaining,
\* descending; unknown quota ranks above exhausted and below known positive.
Rank(q) == IF q = Unknown THEN 1 ELSE IF Exhausted(q) THEN 0 ELSE 1 + q.remaining

\* The members of highest rank; the rotating cursor picks among them.
Candidates(limits) ==
    {i \in DOMAIN limits : \A j \in DOMAIN limits : Rank(limits[j]) <= Rank(limits[i])}

NoRoute == [creds |-> <<>>, limits |-> <<>>, any |-> FALSE]

RouteInit ==
    /\ specs \in {q \in SeqsUpTo(NotifySpecs, MaxPrior + 1) :
                     q # <<>> /\ \A i, j \in 1..Len(q) : q[i] = q[j] => i = j}
    /\ balancing = BuildAll(specs, BaseStack)
    /\ RateLimitRemaining = NoGauge
    /\ RateLimitReset = NoGauge
    /\ notif = [t \in Tasks |-> NoCall]
    /\ obs = 0
    /\ build \in Builds
    /\ transport = CredsWiring(build, BaseStack)
    /\ rt = [pc |-> "serve", limits |-> [i \in 1..Len(balancing) |-> Unknown],
             last |-> NoRoute]

\* A response through member i carried quota headers: its tracker entry is
\* replaced.
RouteObserve ==
    /\ rt.pc = "serve"
    /\ \E i \in 1..Len(balancing), rate \in Rates :
          rt' = [rt EXCEPT !.limits[i] = rate]

\* ReverseProxy hands a client request to its Transport.
RouteRequest ==
    /\ rt.pc = "serve"
    /\ \E i \in (IF "Balancing" \in Range(transport) THEN Candidates(rt.limits) ELSE {0}) :
          rt' = [rt EXCEPT !.last = [creds |-> IF i = 0 THEN <<>> ELSE <<i>>,
                                     limits |-> rt.limits, any |-> TRUE]]

\* ------------------------------------------------------------------------
\* The harness specifications
\* ------------------------------------------------------------------------
MainRest ==
    /\ pc = "off" /\ cfg = [rate |-> 0] /\ limit = 0
    /\ listening = FALSE /\ ctxDone = FALSE /\ exit = -1
    /\ db = "none" /\ task = [t \in Tasks |-> NoTask] /\ sent = {}
    /\ signalled = [seen |-> FALSE, inflight |-> {}] /\ lastInput = NoInput

MainOff == build = "part_000" /\ transport = <<>> /\ MainRest

SharedOff ==
    /\ balancing = <<>> /\ specs = <<>> /\ RateLimitRemaining = NoGauge
    /\ RateLimitReset = NoGauge /\ notif = [t \in Tasks |-> NoCall] /\ obs = 0

HarnessOff(hs) ==
    /\ ("cred" \in hs) => cred = [pc |-> "off"]
    /\ ("lg" \in hs) => lg = [pc |-> "off"]
    /\ ("lk" \in hs) => lk = [pc |-> "off"]
    /\ ("rt" \in hs) => rt = [pc |-> "off"]
    /\ ("mx" \in hs) => mx = [pc |-> "off"]

InitCred == CredInit /\ MainOff /\ HarnessOff({"lg", "lk", "rt", "mx"})

NextCred == CredCall /\ UNCHANGED <<mainVars, lg, lk, rt, mx>>

SpecCred == InitCred /\ [][NextCred]_vars

InitNotify == NotifyInit /\ MainOff /\ HarnessOff({"lg", "lk", "rt", "mx"})

NextNotify ==
    \E t \in Tasks :
        \/ NotifyCall(t) /\ UNCHANGED <<mainVars, lg, lk, rt, mx>>
        \/ NotifyStepRemaining(t) /\ UNCHANGED <<mainVars, lg, lk, rt, mx>>
        \/ NotifyStepReset(t) /\ UNCHANGED <<mainVars, lg, lk, rt, mx>>

SpecNotify == InitNotify /\ [][NextNotify]_vars

InitRoute == RouteInit /\ MainRest /\ HarnessOff({"cred", "lg", "lk", "mx"})

NextRoute ==
    \/ RouteObserve /\ UNCHANGED <<mainVars, sharedVars, cred, lg, lk, mx>>
    \/ RouteRequest /\ UNCHANGED <<mainVars, sharedVars, cred, lg, lk, mx>>

SpecRoute == InitRoute /\ [][NextRoute]_vars

InitMux == MuxInit /\ MainOff /\ SharedOff /\ HarnessOff({"cred", "lg", "lk", "rt"})

NextMux ==
    \/ MuxRoot /\ UNCHANGED <<mainVars, sharedVars, cred, lg, lk, rt>>
    \/ MuxAlias /\ UNCHANGED <<mainVars, sharedVars, cred, lg, lk, rt>>

SpecMux == InitMux /\ [][NextMux]_vars

InitLog == LogInit /\ MainOff /\ SharedOff /\ HarnessOff({"cred", "lk", "rt", "mx"})

NextLog == LogCall /\ UNCHANGED <<mainVars, sharedVars, cred, lk, rt, mx>>

SpecLog == InitLog /\ [][NextLog]_vars

InitLink == LinkInit /\ MainOff /\ SharedOff /\ HarnessOff({"cred", "lg", "rt", "mx"})

NextLink ==
    \/ LinkModify /\ UNCHANGED <<mainVars, sharedVars, cred, lg, rt, mx>>
    \/ LinkModifyAgain /\ UNCHANGED <<mainVars, sharedVars, cred, lg, rt, mx>>

SpecLink == InitLink /\ [][NextLink]_vars

\* ------------------------------------------------------------------------
\* Properties
\* ------------------------------------------------------------------------
ColonsIn(s) == Cardinality({i \in 1..Len(s) : s[i] = ":"})

\* The text of s before its n-th colon.
BeforeColon(s, n) ==
    CHOOSE p \in {SubSeq(s, 1, k) : k \in 0..Len(s)} :
        /\ ColonsIn(p) = n - 1
        /\ Len(p) < Len(s)
        /\ s[Len(p) + 1] = ":"

LastMember == balancing[Len(balancing)]

\* C1: when credentials are configured, every request the reverse proxy sends
\* to the upstream has passed through exactly one credential transport.
C1_OneCredentialPerRequest ==
    \A e \in sent : (e.src = "proxy" /\ NumCreds > 0) => Len(e.creds) = 1

\* C2: when the process has exited after the interrupt signal, every client
\* request that was in flight at the signal has run to its end and was not
\* cut off by the exit.
C2_InFlightCompletes ==
    (pc = "exited" /\ signalled.seen) =>
        \A t \in signalled.inflight : task[t].st \in {"done", "badgateway", "aborted"}

\* C3: when Base.RoundTrip returns a non-nil error, LoggingTransport.RoundTrip
\* returns exactly that error, for every path, after one call of Base.RoundTrip.
C3_ErrorReturnedUnmodified ==
    (lg.pc = "done" /\ lg.base.err # Nil) =>
        /\ ~lg.out.panic
        /\ lg.out.calls = 1
        /\ lg.out.err = lg.base.err

EndsWithSlash(u) == u # <<>> /\ u[Len(u)] = "/"

\* C4: a Link target that starts with the upstream base URL comes out with
\* exactly that prefix replaced by the client origin (keeping the base's
\* trailing slash) and everything after the prefix unchanged.
C4_LinkPrefixRewritten ==
    (/\ lk.pc = "once"
     /\ Len(lk.orig.link) = 1
     /\ HasPrefixAt(lk.orig.link[1], lk.proxyURL, 1)) =>
        LET target == lk.orig.link[1]
            suffix == SubSeq(target, Len(lk.proxyURL) + 1, Len(target))
            origin == Origin(lk.proto, lk.host)
            prefix == IF EndsWithSlash(lk.proxyURL) THEN <<origin, "/">> ELSE <<origin>>
        IN lk.hdr.link = <<prefix \o suffix>>

NoMatch(hdr, u) == \A i \in 1..Len(hdr.link) : ~Contains(hdr.link[i], u)

\* C5: the rewrite applied twice gives what it gives applied once, and a
\* response without an occurrence of the upstream base URL in Link keeps
\* every header.
C5_RewriteIdempotentNoOp ==
    /\ lk.pc = "twice" => lk.hdr = lk.once
    /\ (lk.pc = "once" /\ NoMatch(lk.orig, lk.proxyURL)) => lk.hdr = lk.orig

\* C6: after ModifyResponse no header of the response names the upstream
\* base URL.
C6_NoUpstreamAddress ==
    lk.pc = "once" =>
        /\ NoMatch(lk.hdr, lk.proxyURL)
        /\ ~Contains(lk.hdr.location, lk.proxyURL)

\* C7: configurePatTransport takes a specification without a colon as the
\* token, with the 44-character encoded digest as identity; otherwise the
\* identity is the text before the first colon and the token all text after it.
C7_PatTokenAndIdentity ==
    (cred.pc = "returned" /\ cred.kind = "pat") =>
        IF ColonsIn(cred.params) = 0
        THEN /\ LastMember.auth = <<cred.params>>
             /\ LastMember.identity = hashToken(cred.params)
             /\ Len(LastMember.identity) = DigestLen
             /\ ":" \notin Range(LastMember.identity)
        ELSE /\ ColonsIn(LastMember.identity) = 0
             /\ cred.params = LastMember.identity \o <<":">> \o LastMember.auth[1]
             /\ Len(LastMember.auth) = 1

C7_Witness ==
    /\ cred.pc = "returned" /\ cred.kind = "pat"
    /\ ColonsIn(cred.params) = 2
    /\ LastMember.auth[1] = <<"b", ":">>

\* C8: a configure* call that returns has appended exactly one member, which
\* wraps the base transport it was given and holds the fields cut from the
\* specification at its first colon (OAuth) or first two colons (GitHub App).
C8_AppendsOneParsedMember ==
    cred.pc = "returned" =>
        /\ Len(balancing) = Len(cred.prior) + 1
        /\ SubSeq(balancing, 1, Len(cred.prior)) = cred.prior
        /\ LastMember.kind = cred.kind
        /\ LastMember.base = cred.base
        /\ cred.kind = "oauth" =>
              /\ Len(LastMember.auth) = 2
              /\ ColonsIn(LastMember.auth[1]) = 0
              /\ cred.params = LastMember.auth[1] \o <<":">> \o LastMember.auth[2]
        /\ cred.kind = "app" =>
              /\ Len(LastMember.auth) = 3
              /\ ColonsIn(LastMember.auth[1]) = 0
              /\ ColonsIn(LastMember.auth[2]) = 0
              /\ cred.params = LastMember.auth[1] \o <<":">> \o LastMember.auth[2]
                                  \o <<":">> \o LastMember.auth[3]

C8_Witness ==
    /\ cred.pc = "returned" /\ cred.kind = "app"
    /\ Len(cred.prior) = 1
    /\ ColonsIn(LastMember.auth[3]) = 1

\* The identity the claim gives a credential built from specification sp.
ExpectedIdentity(sp) ==
    IF sp.kind = "oauth" THEN BeforeColon(sp.params, 1)
    ELSE IF sp.kind = "app" THEN BeforeColon(sp.params, 2)
    ELSE IF ColonsIn(sp.params) = 0 THEN hashToken(sp.params)
    ELSE BeforeColon(sp.params, 1)

\* g2 is g with key k set to v and nothing else changed
OnlySet(g, g2, k, v) ==
    /\ DOMAIN g2 = (DOMAIN g) \cup {k}
    /\ g2[k] = v
    /\ \A j \in (DOMAIN g) \ {k} : g2[j] = g[j]

\* C9: a Notify call with resource R and a rate sets the remaining gauge and
\* then the reset gauge labelled (identity of its credential, R) to the rate's
\* values, and each of the two writes changes no other gauge.
C9_NotifySetsOwnGauges ==
    [][\A t \in Tasks :
        LET c == notif[t]
            k == <<ExpectedIdentity(specs[c.idx]), c.resource>>
        IN /\ (c.step = 1 /\ notif'[t].step = 2) =>
                  /\ OnlySet(RateLimitRemaining, RateLimitRemaining', k, c.rate.remaining)
                  /\ RateLimitReset' = RateLimitReset
           /\ (c.step = 2 /\ notif'[t].step = 0) =>
                  /\ OnlySet(RateLimitReset, RateLimitReset', k, c.rate.reset)
                  /\ RateLimitRemaining' = RateLimitRemaining
      ]_vars

C9_Witness ==
    /\ cred.pc = "off" /\ pc = "off"
    /\ obs = 2 /\ \A t \in Tasks : notif[t] = NoCall
    /\ Len(balancing) = 2 /\ balancing[2].kind = "app" /\ balancing[1].kind = "pat"
    /\ DOMAIN RateLimitReset = {<<balancing[2].identity, "core">>,
                                <<balancing[1].identity, "search">>}
    /\ RateLimitRemaining[<<balancing[2].identity, "core">>] = 5
    /\ RateLimitReset[<<balancing[2].identity, "core">>] = 1

Malformed(in) ==
    \/ in.what \in {"url", "storage"} /\ ~in.ok
    \/ in.what = "oauth" /\ (ColonsIn(in.params) = 0 \/ ~in.ok)
    \/ in.what = "app" /\ (ColonsIn(in.params) < 2 \/ ~in.ok)

\* C10: once an unparsable URL, a storage backend that fails to open, an OAuth
\* specification without a colon, a GitHub App specification with fewer than
\* two colons or a failing credential constructor has been met, the process
\* has exited with status 1, the listener was never opened, and no client
\* request or quota probe was sent.
C10_ConfigErrorFatal ==
    Malformed(lastInput) =>
        /\ pc = "exited" /\ exit = 1
        /\ ~listening
        /\ sent = {}
        /\ \A t \in Tasks : task[t].st = "none"

C10_Witness ==
    /\ lastInput.what = "app" /\ ColonsIn(lastInput.params) = 1
    /\ Len(balancing) = 1
    /\ pc = "exited"

\* C11: when some credential has known positive remaining quota, a client
\* request is never routed through an exhausted credential (remaining 0, reset
\* in the future); with two credentials, the first exhausted and the second
\* with positive remaining, the request is routed to the second.
C11_RoutesAwayFromExhausted ==
    (rt.pc = "serve" /\ rt.last.any /\ \E j \in DOMAIN rt.last.limits : Positive(rt.last.limits[j])) =>
        /\ rt.last.creds # <<>> => ~Exhausted(rt.last.limits[rt.last.creds[1]])
        /\ (/\ Len(rt.last.limits) = 2
            /\ Exhausted(rt.last.limits[1])
            /\ Positive(rt.last.limits[2])) => rt.last.creds = <<2>>

\* The observation whose Notify call returned last on key k: the reset gauge
\* is written by the final statement of the closure, and the rates of Rates
\* differ in their reset values.
LastCompleted(k) == CHOOSE r \in Rates : r.reset = RateLimitReset[k]

\* C12: once all concurrent observations of a (credential, resource) key have
\* completed, its remaining and reset gauges hold the values of the one
\* observation that completed last, never the remaining of one observation
\* with the reset of another.
C12_LastObservationWins ==
    (cred.pc = "off" /\ \A t \in Tasks : notif[t] = NoCall) =>
        \A k \in DOMAIN RateLimitReset :
            /\ k \in DOMAIN RateLimitRemaining
            /\ RateLimitRemaining[k] = LastCompleted(k).remaining

\* C13: when a quota probe of the poll goroutine has ended in a transport
\* error, the error stays inside the poll task: the process is not ended by
\* it, so no client request in flight is cut off, and the poll loop goes on
\* to its next tick.
C13_ProbeFailureContained ==
    task[0].err # Nil =>
        /\ exit # 2
        /\ task[0].st \in {"idle", "upstream", "notify", "stopped"}

\* C14: the poll loop is started with the context the interrupt cancels: once
\* that context is cancelled no further quota probe is issued, and the loop
\* eventually exits (or the process has ended).
C14_PollObservesCancellation ==
    /\ [][ctxDone => ~(task[0].st = "idle" /\ task'[0].st = "upstream")]_vars
    /\ (ctxDone /\ task[0].st # "none") ~> (task[0].st \in {"stopped", "panicked"} \/ ~Running)

C14_Witness ==
    /\ ctxDone /\ Running /\ task[0].st = "stopped"
    /\ \E e \in sent : e.src = "poll"

\* Position of stage x in a stage list, 0 when absent.
Pos(stages, x) == IF x \in Range(stages) THEN CHOOSE k \in 1..Len(stages) : stages[k] = x ELSE 0

Times(stages, x) == Cardinality({k \in 1..Len(stages) : stages[k] = x})

\* C15 as stated: every proxied request passes the caching stage, and passes
\* it before the balancing router and the credential transport.
C15_CacheBeforeCredential ==
    \A e \in sent : e.src = "proxy" =>
        /\ Pos(e.stages, "Caching") > 0
        /\ Pos(e.stages, "Balancing") > 0 => Pos(e.stages, "Caching") < Pos(e.stages, "Balancing")
        /\ Pos(e.stages, "Credential") > 0 => Pos(e.stages, "Caching") < Pos(e.stages, "Credential")

\* C15 as amended: every proxied request passes the caching stage exactly
\* once, after the balancing router and the credential transport when it
\* passes those, and before LoggingTransport and the upstream.
C15_CacheBelowCredential ==
    \A e \in sent : e.src = "proxy" =>
        /\ e.stages[1] = "Proxy"
        /\ Times(e.stages, "Caching") = 1
        /\ Pos(e.stages, "Balancing") > 0 =>
              /\ Pos(e.stages, "Balancing") = 2
              /\ Pos(e.stages, "Credential") = 3
        /\ Pos(e.stages, "Credential") > 0 => Pos(e.stages, "Credential") < Pos(e.stages, "Caching")
        /\ Pos(e.stages, "Logging") = Pos(e.stages, "Caching") + 1
        /\ Pos(e.stages, "Default") = Len(e.stages)
        /\ Pos(e.stages, "Default") = Pos(e.stages, "Logging") + 1

C15_Witness ==
    \E e \in sent :
        /\ e.src = "proxy" /\ Len(e.creds) = 1
        /\ e.stages = <<"Proxy", "Balancing", "Credential", "Caching", "Logging", "Default">>

BothServed == mx.pc = "requests" /\ mx.root # NotServed /\ mx.alias # NotServed

\* the configured base path joined with p by a single slash
JoinedWithBase(base, p) ==
    IF base # <<>> /\ base[Len(base)] = "/" THEN base \o p ELSE base \o <<"/">> \o p

\* C16 as stated: for every method and path p, the requests for /api/v3/p and
\* for /p are both forwarded by the reverse proxy, with the same method, to
\* the same upstream URL: the base joined with p, and the request's query.
C16_PrefixesEquivalent ==
    BothServed =>
        /\ mx.root.handler = "proxy"
        /\ mx.alias = mx.root
        /\ mx.root.method = mx.method
        /\ mx.root.url = [host |-> Upstream, path |-> JoinedWithBase(mx.base, mx.p),
                          query |-> mx.query]

\* Paths the amended claim covers: clean ones (no empty segment), other than
\* the reserved "metrics", that do not themselves name the alias subtree
\* ("api/v3" or a path below it).
Covered(p) ==
    /\ ~HasEmptySegment(<<"/">> \o p)
    /\ p # <<"metrics">>
    /\ ~(p # <<>> /\ p[1] = "api/v3" /\ (Len(p) = 1 \/ p[2] = "/"))

\* C16 as amended: the equivalence, for the covered paths.
C16_PrefixesEquivalentCovered ==
    (BothServed /\ Covered(mx.p)) =>
        /\ mx.root.handler = "proxy"
        /\ mx.alias = mx.root
        /\ mx.root.method = mx.method
        /\ mx.root.url = [host |-> Upstream, path |-> JoinedWithBase(mx.base, mx.p),
                          query |-> mx.query]

C16_Witness ==
    /\ BothServed /\ Covered(mx.p)
    /\ mx.p = <<"user", "/", "user">> /\ mx.base = <<"/", "ghe", "/">>
    /\ mx.query = "page=2" /\ mx.method = "POST"
    /\ mx.alias.url.path = <<"/", "ghe", "/", "user", "/", "user">>

\* C17: a client request for /metrics is answered by the metrics handler and
\* is never handed to the reverse proxy, the caching stage, a credential
\* transport or the upstream.
C17_MetricsNeverProxied ==
    /\ \A t \in 1..MaxReq : (task[t].st # "none" /\ task[t].client = MetricsPath) =>
            /\ task[t].st = "metrics"
            /\ task[t].creds = <<>>
            /\ notif[t] = NoCall
    /\ \A e \in sent : e.client # MetricsPath

C17_Witness ==
    \E t \in 1..MaxReq :
        /\ task[t].client = MetricsPath /\ task[t].st = "metrics"
        /\ Len(balancing) > 0 /\ "Balancing" \in Range(transport)

\* C18: with a positive request-rate ceiling every request handed to the
\* proxy's transport, with or without credentials, waits on the limiter
\* exactly once; with ceiling 0 there is no limiter stage.
C18_LimiterOncePerRequest ==
    \A e \in sent : e.src = "proxy" =>
        /\ cfg.rate > 0 => e.takes = 1
        /\ cfg.rate = 0 => e.takes = 0

\* C19: with N >= 1 credentials and --rps r > 0 the limiter main() installs
\* allows r * N requests per second.
C19_RpsTimesCredentials ==
    (build = "main_go" /\ "RPS" \in Range(transport) /\ NumCreds >= 1 /\ cfg.rate > 0) =>
        limit = cfg.rate * NumCreds

\* C20: for every outcome of Base.RoundTrip, a nil response with an error
\* included, RoundTrip returns without panicking, and with a nil response it
\* observes no status label and logs no field of the response.
C20_NoNilDereference ==
    lg.pc = "done" =>
        /\ ~lg.out.panic
        /\ lg.base.resp = NilResp =>
              /\ lg.out.latency = Nil
              /\ lg.out.event.fields \cap
                    {"status", "size", "request_id", "ratelimit_remaining",
                     "ratelimit_resource"} = {}

\* C21: any two distinct members of the balancing set built at startup have
\* distinct metrics identities, so the Notify closure of one credential never
\* sets the gauges of another.
C21_IdentitiesDistinct ==
    \A i, j \in 1..Len(balancing) :
        i # j => balancing[i].identity # balancing[j].identity

\* C22: when a BoltDB or Pebble handle is open, the step in which main()
\* leaves server.Shutdown after the interrupt, with a nil result or with an
\* error, closes the database before the process exits.
C22_CloseBeforeExit ==
    [][(Shutdown /\ db = "open") => db' = "closed"]_vars

====
